---- MODULE Spec2Model ----
(***************************************************************************)
(* Model of libsgl/egl.cpp (openfimg): the window surface's swap chain     *)
(* (FGLWindowSurface) and its region arithmetic (Rect, Region).            *)
(*                                                                         *)
(* Seven specifications share the module:                                    *)
(*   SpecRegion   - Region::subtract and Rect::andSelf applied to every    *)
(*                  pair of rectangles of a bounded grid;                  *)
(*   Spec         - one FGLWindowSurface driven by arbitrary calls of      *)
(*                  connect / swapBuffers / setSwapRectangle / disconnect  *)
(*                  and its destructor, against a buffer-queue provider,   *)
(*                  gralloc, copybit and the fimg allocator, whose         *)
(*                  outcomes are nondeterministic;                         *)
(*   SpecVariants - the pixmap and pbuffer surfaces as constructed, with   *)
(*                  the methods they inherit from FGLSurface;              *)
(*   SpecCopyBlt  - FGLWindowSurface::copyBlt applied to bounded regions,  *)
(*                  strides and pixel sizes;                               *)
(*   SpecIterator - region_iterator objects over the Regions that          *)
(*                  Region::subtract returns, and their next() calls;      *)
(*   SpecFrames   - an application drawing partial-update frames through   *)
(*                  a window surface on two alternating buffers, with the  *)
(*                  pixels of the buffers;                                 *)
(*   SpecDisplay  - the EGL entry points for the display, the              *)
(*                  configuration table and the per-thread error, called   *)
(*                  from several threads.                                  *)
(***************************************************************************)
EXTENDS Integers, Sequences, FiniteSets, TLC

\* ------------------------------------------------------------------------
\* Bounds
\* ------------------------------------------------------------------------
\* rectangle edges of SpecRegion range over 0..GridMax
GridMax == 3

\* native buffers the provider cycles through: 1..NumBuffers
NumBuffers == 3

\* addresses the allocator can hand out: 1..NumAddrs
NumAddrs == 1

\* calls made on the surface in one run
MaxCalls == 5

\* region_iterator objects constructed over one Region
MaxPasses == 2

\* frames the application draws and presents
MaxFrames == 4

\* threads that call the EGL entry points: 1..NumThreads
NumThreads == 2

\* keys pthread_key_create hands out before it fails: 1..MaxKeys
MaxKeys == 2

\* next() calls made on one region_iterator
MaxNexts == 6

\* ------------------------------------------------------------------------
\* Program constants
\* ------------------------------------------------------------------------
\* Rect storage[4] of Region
RegionCapacity == 4

\* ------------------------------------------------------------------------
\* Rect
\* ------------------------------------------------------------------------
max(a, b) == IF a > b THEN a ELSE b

min(a, b) == IF a < b THEN a ELSE b

\* Rect(l, t, r, b)
Rect(l, t, r, b) == [left |-> l, top |-> t, right |-> r, bottom |-> b]

\* Rect(w, h)
RectWH(w, h) == Rect(0, 0, w, h)

\* Rect::andSelf: the receiver after the call
andSelf(self, r) ==
    Rect(max(self.left, r.left), max(self.top, r.top),
         min(self.right, r.right), min(self.bottom, r.bottom))

\* Rect::isEmpty
isEmpty(r) == r.left >= r.right \/ r.top >= r.bottom

\* ------------------------------------------------------------------------
\* Region
\* ------------------------------------------------------------------------
\* a slot of Region::storage that was never written
NoRect == Rect(-1, -1, -1, -1)

\* Region(): count(0), storage untouched
EmptyRegion == [storage |-> [i \in 1..RegionCapacity |-> NoRect], count |-> 0]

\* "storage->... = ...; storage++" of Region::subtract
Emit(reg, r) ==
    [storage |-> [i \in 1..RegionCapacity |->
                     IF i = reg.count + 1 THEN r ELSE reg.storage[i]],
     count   |-> reg.count + 1]

\* the top strip of Region::subtract
TopStrip(reg, lhs, rhs) ==
    IF lhs.top < rhs.top
    THEN Emit(reg, Rect(lhs.left, lhs.top, lhs.right, rhs.top))
    ELSE reg

\* LeftStrip with the strip's right edge taken from the wrong edge of rhs
LeftStripWrongEdge(reg, lhs, rhs, top, bot) ==
    IF top < bot /\ lhs.left < rhs.left
    THEN Emit(reg, Rect(lhs.left, top, rhs.right, bot))
    ELSE reg

\* the left-side strip of Region::subtract, inside the band top..bot
LeftStrip(reg, lhs, rhs, top, bot) ==
    IF top < bot /\ lhs.left < rhs.left
    THEN Emit(reg, Rect(lhs.left, top, rhs.left, bot))
    ELSE reg

\* the right-side strip of Region::subtract, inside the band top..bot
RightStrip(reg, lhs, rhs, top, bot) ==
    IF top < bot /\ lhs.right > rhs.right
    THEN Emit(reg, Rect(rhs.right, top, lhs.right, bot))
    ELSE reg

\* BottomStrip with the comparison off by one (>= for >)
BottomStripOffByOne(reg, lhs, rhs) ==
    IF lhs.bottom >= rhs.bottom
    THEN Emit(reg, Rect(lhs.left, rhs.bottom, lhs.right, lhs.bottom))
    ELSE reg

\* the bottom strip of Region::subtract
BottomStrip(reg, lhs, rhs) ==
    IF lhs.bottom > rhs.bottom
    THEN Emit(reg, Rect(lhs.left, rhs.bottom, lhs.right, lhs.bottom))
    ELSE reg

\* Region::subtract
subtract(lhs, rhs) ==
    IF isEmpty(lhs) THEN EmptyRegion
    ELSE LET top == max(lhs.top, rhs.top)
             bot == min(lhs.bottom, rhs.bottom)
             r1  == TopStrip(EmptyRegion, lhs, rhs)
             r2  == LeftStrip(r1, lhs, rhs, top, bot)
             r3  == RightStrip(r2, lhs, rhs, top, bot)
         IN  BottomStrip(r3, lhs, rhs)

\* Region::isEmpty
regionIsEmpty(reg) == reg.count <= 0

\* Region::begin .. Region::end: the rectangles in storage order
Rects(reg) == [i \in 1..reg.count |-> reg.storage[i]]

\* ------------------------------------------------------------------------
\* Geometry on the integer grid (used by the properties)
\* ------------------------------------------------------------------------
\* the pixels (x, y) a rectangle covers
Points(r) == {<<x, y>> : x \in r.left..(r.right - 1), y \in r.top..(r.bottom - 1)}

\* the pixels the rectangles of a region cover
RegionPoints(reg) == UNION {Points(reg.storage[i]) : i \in 1..reg.count}

\* ------------------------------------------------------------------------
\* State
\* ------------------------------------------------------------------------
VARIABLES
    lhs,        \* SpecRegion: first argument of Region::subtract
    rhs,        \* SpecRegion: second argument of Region::subtract
    reg,        \* SpecRegion: the Region returned by subtract(lhs, rhs)
    isect,      \* SpecRegion: Rect(lhs).andSelf(rhs)
    gpc,        \* SpecRegion: "input" before the call, "done" after
    \* --- FGLWindowSurface fields
    buffer,          \* android_native_buffer_t* buffer; 0 is the null pointer
    previousBuffer,  \* android_native_buffer_t* previousBuffer
    bits,            \* void* bits: b is the mapped address of buffer b, 0 is NULL
    width,           \* int width
    height,          \* int height
    depth,           \* FGLPlane depth: format, width, height, stride, data
    dirtyRegion,     \* Rect dirtyRegion
    oldDirtyRegion,  \* Rect oldDirtyRegion
    blitengine,      \* copybit_device_t* blitengine; 0 is the null pointer
    \* --- which subclass of FGLSurface the surface is, and FGLPbufferSurface's field
    variant,         \* "window", "pixmap" or "pbuffer"
    pbuffer,         \* FGLPlane pbuffer
    \* --- SpecCopyBlt: one call of copyBlt
    clipArg,         \* the Region passed as clip
    dstStride,       \* dst->stride
    srcStride,       \* src->stride
    bpp,             \* getBpp(src->format)
    copied,          \* the <<dst byte, src byte>> pairs memcpy has copied
    cpc,             \* "input" before the call, "done" after, "idle" elsewhere
    \* --- SpecIterator: a region_iterator over reg and its caller
    it,              \* the iterator's b and e, as offsets from reg.storage
    nexts,           \* per next() call on it so far: the value returned and *rect
    prevNexts,       \* nexts of the iterator constructed before this one
    passes,          \* iterators constructed so far
    \* --- SpecFrames: the pixels of the buffers and the frames drawn into them
    pix,             \* per buffer and sample pixel: the frame that wrote it, 0 for none
    intended,        \* per sample pixel: the frame the application last drew it in
    frame,           \* frames the application has started
    fpc,             \* "idle" between frames, "requested", "drawn"
    \* --- SpecDisplay: the display and the per-thread error of the EGL entry points
    initialized,     \* displays[0].initialized
    eglErrorKey,     \* pthread_key_t eglErrorKey; -1 before a key was created
    eglContextKey,   \* pthread_key_t eglContextKey; -1 before a key was created
    tls,             \* per thread and key: the thread-specific value, "NULL" if never set
    recorded,        \* per thread: the error setError last recorded since its last eglGetError
    outArgs,         \* what the last call wrote through its out parameters, and its thread
    \* --- collaborators
    bufState,        \* provider: "free", "dequeued" or "front" per buffer
    head,            \* provider: the buffer the next dequeueBuffer hands out
    refs,            \* per buffer: incRef calls minus decRef calls of the surface
    locked,          \* gralloc: "none", "r" or "rw" per buffer (the surface's pin)
    heap,            \* allocator: the addresses handed out and not freed
    eglError,        \* the value last stored by setError
    \* --- observation of the last call
    ret,             \* [op, result] of the last call
    events,          \* calls the last call made to its collaborators, in order
    crashed,         \* the process dereferenced a null buffer
    destroyed,       \* the destructor has run
    \* --- history
    phase,           \* position in connect -> present x N -> disconnect
    swapRectRequested, \* setSwapRectangle was called since the last swapBuffers
    calls            \* calls made on the surface so far

regionVars == <<lhs, rhs, reg, isect, gpc>>

surfaceVars == <<buffer, previousBuffer, bits, width, height, depth,
                 dirtyRegion, oldDirtyRegion, blitengine>>

envVars == <<bufState, head, refs, locked, heap, eglError>>

obsVars == <<ret, events, crashed, destroyed, phase, swapRectRequested, calls>>

variantVars == <<variant, pbuffer>>

iterVars == <<it, nexts, prevNexts, passes>>

frameVars == <<pix, intended, frame, fpc>>

copyArgVars == <<clipArg, dstStride, srcStride, bpp, copied, cpc>>

displayVars == <<initialized, eglErrorKey, eglContextKey, tls, recorded, outArgs>>

copyVars == <<copyArgVars, iterVars, frameVars, displayVars>>

vars == <<regionVars, surfaceVars, envVars, obsVars, variantVars, copyVars>>

\* ------------------------------------------------------------------------
\* Collaborators of the window surface
\* ------------------------------------------------------------------------
Buffers == 1..NumBuffers

Addrs == 1..NumAddrs

\* android_native_buffer_t::width: every third buffer is a narrow one
BufWidth(b) == IF b % 3 = 0 THEN 50 ELSE 100

\* android_native_buffer_t::height: every fourth buffer is a low one
BufHeight(b) == IF b % 4 = 0 THEN 50 ELSE 100

\* android_native_buffer_t::stride (in pixels)
BufStride(b) == BufWidth(b)

\* android_native_buffer_t::format: 4 is HAL_PIXEL_FORMAT_RGB_565, 1 is RGBA_8888
BufFormat(b) == IF b % 2 = 0 THEN 4 ELSE 1

\* a lock that reports success without storing the buffer's address
lockStoresNothing(b) == 0

\* the address FGLWindowSurface::lock stores through vaddr for buffer b: the
\* model names the mapping of buffer b by b itself
MappedAddress(b) == b

\* one call made to a collaborator: info is the usage of a lock, the pin an
\* unlock finds, the pin a queueBuffer finds
Ev(op, b, info, ok) ==
    [op |-> op, buf |-> b, src |-> 0, info |-> info, ok |-> ok, region |-> <<>>]

\* the call copyBlt(dst, bits, src, prevBits, clip)
EvCopy(dst, src, clip) ==
    [op |-> "copyBlt", buf |-> dst, src |-> src, info |-> "", ok |-> TRUE,
     region |-> Rects(clip)]

\* nativeWindow->dequeueBuffer: 0 is a failure, else the buffer at the head of
\* the provider's ring, when it is free
DequeueChoices(st, hd) == {0} \cup {b \in {hd} : st[b] = "free"}

\* the head of the provider's ring after it handed out b
NextHead(hd, b) == IF b = 0 THEN hd ELSE (b % NumBuffers) + 1

\* queueBuffer that leaves the buffer with the surface
queueBufferKeepsBuffer(st, b) == st

\* nativeWindow->queueBuffer(b): b goes on screen, the buffer it replaces is free again
queueBuffer(st, b) ==
    IF b = 0 THEN st
    ELSE [x \in Buffers |-> IF x = b THEN "front"
                            ELSE IF st[x] = "front" THEN "free" ELSE st[x]]

\* nativeWindow->dequeueBuffer(&buffer) handing out b
dequeueBuffer(st, b) == [st EXCEPT ![b] = "dequeued"]

\* incRef that takes two references
incRefTwice(r, b) == [r EXCEPT ![b] = @ + 2]

\* buffer->common.incRef
incRef(r, b) == [r EXCEPT ![b] = @ + 1]

\* decRef that drops no reference
decRefKeepsReference(r, b) == r

\* buffer->common.decRef
decRef(r, b) == [r EXCEPT ![b] = @ - 1]

\* FGLWindowSurface::lock succeeding: the buffer is pinned with the usage
lock(lk, b, usage) == [lk EXCEPT ![b] = usage]

\* unlock that leaves the buffer pinned
unlockKeepsPin(lk, b) == lk

\* FGLWindowSurface::unlock: BAD_VALUE for a null buffer, else the pin is dropped
unlock(lk, b) == IF b = 0 THEN lk ELSE [lk EXCEPT ![b] = "none"]

\* fimgAllocMemory: 0 (NULL), or an address that is not in use
AllocChoices(h) == {0} \cup (Addrs \ h)

\* fimgAllocMemory returning a
fimgAllocMemory(h, a) == IF a = 0 THEN h ELSE h \cup {a}

\* fimgFreeMemory(a)
fimgFreeMemory(h, a) == h \ {a}

\* ------------------------------------------------------------------------
\* FGLWindowSurface
\* ------------------------------------------------------------------------
\* the value an uninitialised Rect (Rect() { }) may hold
IndeterminateRects == {Rect(0, 0, 0, 0), Rect(0, 0, 100, 100)}

\* what nativeWindow->query reports as NATIVE_WINDOW_WIDTH / _HEIGHT
NominalSizes == {<<50, 50>>}

\* the depthFormat argument: 0 is no depth buffer
DepthFormats == {0, 1}

\* the (l, t, w, h) an application passes to setSwapRectangle
SwapRequests == {<<0, 0, 100, 100>>, <<0, 0, 50, 100>>, <<0, 0, 0, 0>>}

\* an FGLPlane that holds nothing
NoPlane == [format |-> "", width |-> 0, height |-> 0, stride |-> 0, data |-> 0]

\* no region_iterator exists
NoIterator == [b |-> -1, e |-> -1]

\* no region_iterator was constructed
NoIteration ==
    /\ it = NoIterator
    /\ nexts = <<>>
    /\ prevNexts = <<>>
    /\ passes = 0

\* one pixel of each 50 x 50 block of a 100 x 100 buffer
SamplePixels == {<<x, y>> : x \in {0, 50}, y \in {0, 50}}

\* no frame was drawn: the buffers hold nothing the application wrote
NoFrame ==
    /\ pix = [b \in Buffers |-> [p \in SamplePixels |-> 0]]
    /\ intended = [p \in SamplePixels |-> 0]
    /\ frame = 0
    /\ fpc = "idle"

\* the threads of the process
Threads == 1..NumThreads

\* what pthread_getspecific returns for a key the thread never set: (void *)0
NullSpecific == "NULL"

\* a call that was passed no configs array and wrote nothing through an
\* out parameter: thread is the caller, hasConfigs and size are the configs
\* and config_size arguments, num is *num_config, configs is what was
\* written to configs[], version is <<*major, *minor>>
NoOut == [thread |-> 0, hasConfigs |-> FALSE, size |-> 0, num |-> -1,
          configs |-> <<>>, version |-> <<>>]

\* the statics of the EGL entry points as the loader leaves them: displays[]
\* zeroed, both keys -1, no thread-specific value
NoDisplay ==
    /\ initialized = FALSE
    /\ eglErrorKey = -1
    /\ eglContextKey = -1
    /\ tls = [t \in Threads |-> [k \in 1..MaxKeys |-> NullSpecific]]
    /\ recorded = [t \in Threads |-> "EGL_SUCCESS"]
    /\ outArgs = NoOut

\* the surface is not inside copyBlt
NoCopy ==
    /\ NoIteration
    /\ NoFrame
    /\ NoDisplay
    /\ clipArg = EmptyRegion
    /\ dstStride = 0
    /\ srcStride = 0
    /\ bpp = 0
    /\ copied = {}
    /\ cpc = "idle"

\* what copybit_open leaves in blitengine: 0 when there is no accelerator
BlitEngines == {0, 1}

\* what copybit->blit returns: 0 is FGL_NO_ERROR
BlitErrors == {0, 1}

\* FGLSurface::FGLSurface and FGLWindowSurface::FGLWindowSurface
Constructed(depthFormat, nominal, d, od, engine) ==
    /\ buffer = 0
    /\ previousBuffer = 0
    /\ bits = 0
    /\ width = nominal[1]
    /\ height = nominal[2]
    /\ depth = [format |-> depthFormat, width |-> 0, height |-> 0,
                stride |-> 0, data |-> 0]
    /\ dirtyRegion = d
    /\ oldDirtyRegion = od
    /\ blitengine = engine
    /\ variant = "window"
    /\ pbuffer = NoPlane
    /\ bufState = [b \in Buffers |-> "free"]
    /\ head = 1
    /\ refs = [b \in Buffers |-> 0]
    /\ locked = [b \in Buffers |-> "none"]
    /\ heap = {}
    /\ eglError = "EGL_SUCCESS"
    /\ ret = [op |-> "new", result |-> "EGL_TRUE"]
    /\ events = <<>>
    /\ crashed = FALSE
    /\ destroyed = FALSE
    /\ phase = "new"
    /\ swapRectRequested = FALSE
    /\ calls = 0

\* a call is made: not after the process has crashed or the surface was
\* destroyed, nor beyond the model's bound
Running == ~crashed /\ ~destroyed /\ calls < MaxCalls /\ calls' = calls + 1

\* FGLWindowSurface::setSwapRectangle
SetSwapRectangle(l, t, w, h) ==
    /\ Running
    /\ dirtyRegion' = Rect(l, t, l + w, t + h)
    /\ ret' = [op |-> "setSwapRectangle", result |-> "EGL_TRUE"]
    /\ events' = <<>>
    /\ swapRectRequested' = TRUE
    /\ UNCHANGED <<buffer, previousBuffer, bits, width, height, depth,
                   oldDirtyRegion, blitengine, envVars, crashed, destroyed,
                   phase, regionVars, variantVars, copyVars>>

\* FGLWindowSurface::connect; dq, a and lockOk are what dequeueBuffer,
\* fimgAllocMemory and lock answer
Connect(dq, a, lockOk) ==
    /\ Running
    /\ dq \in DequeueChoices(bufState, head)
    /\ head' = NextHead(head, dq)
    /\ a \in AllocChoices(heap)
    \* an answer that is never asked for is fixed
    /\ (dq = 0 \/ depth.format = 0) => a = 0
    /\ (dq = 0 \/ (depth.format # 0 /\ a = 0)) => lockOk
    /\ IF dq = 0
       THEN \* dequeueBuffer failed
            /\ eglError' = "EGL_BAD_ALLOC"
            /\ ret' = [op |-> "connect", result |-> "EGL_FALSE"]
            /\ events' = <<Ev("dequeueBuffer", 0, "", FALSE)>>
            /\ phase' = "off"
            /\ UNCHANGED <<buffer, previousBuffer, bits, width, height, depth,
                           dirtyRegion, oldDirtyRegion, bufState, refs, locked,
                           heap>>
       ELSE LET wantDepth == depth.format # 0
                allocFail == wantDepth /\ a = 0
                evDq      == <<Ev("dequeueBuffer", dq, "", TRUE)>>
                evAlloc   == IF wantDepth THEN <<Ev("alloc", a, "", a # 0)>> ELSE <<>>
                evPin     == <<Ev("incRef", dq, "", TRUE),
                               Ev("lockBuffer", dq, "", TRUE),
                               Ev("lock", dq, "rw", lockOk)>>
            IN  /\ buffer' = dq
                /\ bufState' = dequeueBuffer(bufState, dq)
                /\ width' = BufWidth(dq)
                /\ height' = BufHeight(dq)
                /\ depth' = IF wantDepth
                            THEN [depth EXCEPT !.width = BufWidth(dq),
                                               !.height = BufHeight(dq),
                                               !.stride = BufWidth(dq),
                                               !.data = a]
                            ELSE depth
                /\ heap' = IF wantDepth THEN fimgAllocMemory(heap, a) ELSE heap
                /\ refs' = IF allocFail THEN refs ELSE incRef(refs, dq)
                /\ locked' = IF ~allocFail /\ lockOk
                             THEN lock(locked, dq, "rw") ELSE locked
                /\ bits' = IF ~allocFail /\ lockOk
                           THEN MappedAddress(dq) ELSE bits
                /\ eglError' = IF allocFail THEN "EGL_BAD_ALLOC"
                               ELSE IF ~lockOk THEN "EGL_BAD_ACCESS"
                               ELSE eglError
                /\ ret' = [op |-> "connect",
                           result |-> IF allocFail \/ ~lockOk
                                      THEN "EGL_FALSE" ELSE "EGL_TRUE"]
                /\ events' = IF allocFail THEN evDq \o evAlloc
                             ELSE evDq \o evAlloc \o evPin
                /\ phase' = IF phase = "new" /\ (allocFail \/ lockOk)
                            THEN "connected" ELSE "off"
                /\ UNCHANGED <<previousBuffer, dirtyRegion, oldDirtyRegion>>
    /\ UNCHANGED <<blitengine, crashed, destroyed, swapRectRequested,
                   regionVars, variantVars, copyVars>>

\* FGLWindowSurface::disconnect
Disconnect ==
    /\ Running
    /\ LET pinned  == buffer # 0 /\ bits # 0
           locked1 == IF pinned THEN unlock(locked, buffer) ELSE locked
           refs1   == IF buffer # 0 THEN decRef(refs, buffer) ELSE refs
           refs2   == IF previousBuffer # 0 THEN decRef(refs1, previousBuffer)
                      ELSE refs1
       IN  /\ bits' = IF pinned THEN 0 ELSE bits
           /\ locked' = locked1
           /\ bufState' = queueBuffer(bufState, buffer)
           /\ refs' = refs2
           /\ events' =
                  (IF pinned THEN <<Ev("unlock", buffer, locked[buffer], TRUE)>> ELSE <<>>)
               \o <<Ev("queueBuffer", buffer,
                       IF buffer = 0 THEN "none" ELSE locked1[buffer], TRUE)>>
               \o (IF buffer # 0 THEN <<Ev("decRef", buffer, "", TRUE)>> ELSE <<>>)
               \o (IF previousBuffer # 0
                   THEN <<Ev("decRef", previousBuffer, "", TRUE)>> ELSE <<>>)
    /\ buffer' = 0
    /\ previousBuffer' = 0
    /\ ret' = [op |-> "disconnect", result |-> "void"]
    /\ phase' = IF phase = "connected" THEN "done" ELSE "off"
    /\ UNCHANGED <<width, height, depth, dirtyRegion, oldDirtyRegion, heap,
                   head, eglError, crashed, swapRectRequested, regionVars,
                   blitengine, destroyed, variantVars, copyVars>>

\* FGLWindowSurface::~FGLWindowSurface followed by FGLSurface::~FGLSurface
Destroy ==
    /\ Running
    /\ LET refs1 == IF buffer # 0 THEN decRef(refs, buffer) ELSE refs
           refs2 == IF previousBuffer # 0 THEN decRef(refs1, previousBuffer)
                    ELSE refs1
       IN  /\ refs' = refs2
           /\ events' =
                  (IF buffer # 0 THEN <<Ev("decRef", buffer, "", TRUE)>> ELSE <<>>)
               \o (IF previousBuffer # 0
                   THEN <<Ev("decRef", previousBuffer, "", TRUE)>> ELSE <<>>)
               \o <<Ev("free", depth.data, "", TRUE)>>
    /\ heap' = fimgFreeMemory(heap, depth.data)
    /\ destroyed' = TRUE
    /\ ret' = [op |-> "destroy", result |-> "void"]
    /\ UNCHANGED <<surfaceVars, bufState, head, locked, eglError, crashed,
                   phase, swapRectRequested, regionVars, variantVars,
                   copyVars>>

\* err of copyBlt after the accelerator branch: FGL_NO_ERROR (0) without an
\* accelerator, else what copybit->blit returned
copyBltErr(engine, blitErr) == IF engine # 0 THEN blitErr ELSE 0

\* the manual copy of copyBlt runs although the accelerator reported an error
manualCopyOnlyWithoutEngine(engine, err) == engine = 0

\* "if (!copybit || err)" of copyBlt: the manual per-rectangle copy runs
manualCopyRuns(engine, err) == engine = 0 \/ err # 0

\* the calls copyBlt(dst, bits, src, prevBits, clip) makes: the accelerator's
\* blit when there is one, the manual copy when its branch is taken
copyBltEvents(dst, src, clip, engine, blitErr) ==
       <<EvCopy(dst, src, clip)>>
    \o (IF engine # 0 THEN <<Ev("blit", dst, "", blitErr = 0)>> ELSE <<>>)
    \o (IF manualCopyRuns(engine, copyBltErr(engine, blitErr))
        THEN <<Ev("manualCopy", dst, "", TRUE)>> ELSE <<>>)

\* "dirtyRegion.andSelf(Rect(buffer->width, buffer->height))" of swapBuffers
ClipDirty(d, b) == andSelf(d, RectWH(BufWidth(b), BufHeight(b)))

\* CopyBack with the operands of the subtraction exchanged
CopyBackSwapped(old, d) == subtract(d, old)

\* "Region::subtract(oldDirtyRegion, dirtyRegion)" of swapBuffers
CopyBack(old, d) == subtract(old, d)

\* "(width != buffer->width) || (height != buffer->height)" of swapBuffers
ResizeNeeded(w, h, b) == w # BufWidth(b) \/ h # BufHeight(b)

\* FGLWindowSurface::swapBuffers; prevLockOk, blitErr, dq, a and lockOk are
\* what lock(previousBuffer), copybit->blit, dequeueBuffer, fimgAllocMemory and
\* lock(buffer) answer
SwapBuffers(prevLockOk, blitErr, dq, a, lockOk) ==
    /\ Running
    \* the frame's request is used up once the update region has been looked at
    /\ swapRectRequested' = IF buffer = 0 THEN swapRectRequested ELSE FALSE
    /\ UNCHANGED <<regionVars, blitengine, destroyed, variantVars, copyVars>>
    /\ IF buffer = 0
       THEN /\ prevLockOk /\ blitErr = 0 /\ dq = 0 /\ a = 0 /\ lockOk
            /\ eglError' = "EGL_BAD_ACCESS"
            /\ ret' = [op |-> "swapBuffers", result |-> "EGL_FALSE"]
            /\ events' = <<>>
            /\ phase' = "off"
            /\ UNCHANGED <<buffer, previousBuffer, bits, width, height, depth,
                           dirtyRegion, oldDirtyRegion, bufState, head, refs,
                           locked, heap, crashed>>
       ELSE LET \* --- copy back from the front buffer
                hasDirty == ~isEmpty(dirtyRegion)
                dirty1   == IF hasDirty THEN ClipDirty(dirtyRegion, buffer)
                            ELSE dirtyRegion
                copyBack == CopyBack(oldDirtyRegion, dirty1)
                tryCopy  == hasDirty /\ previousBuffer # 0
                            /\ ~regionIsEmpty(copyBack)
                doCopy   == tryCopy /\ prevLockOk
                evCopy   == IF doCopy
                            THEN <<Ev("lock", previousBuffer, "r", TRUE)>>
                                 \o copyBltEvents(buffer, previousBuffer, copyBack,
                                                  blitengine, blitErr)
                                 \o <<Ev("unlock", previousBuffer, "r", TRUE)>>
                            ELSE IF tryCopy
                            THEN <<Ev("lock", previousBuffer, "r", FALSE)>>
                            ELSE <<>>
                locked1  == IF doCopy
                            THEN unlock(lock(locked, previousBuffer, "r"),
                                        previousBuffer)
                            ELSE locked
                \* --- release the previous buffer, hand the current one over
                refs1    == IF previousBuffer # 0 THEN decRef(refs, previousBuffer)
                            ELSE refs
                locked2  == unlock(locked1, buffer)
                state1   == queueBuffer(bufState, buffer)
                evQueue  == (IF previousBuffer # 0
                             THEN <<Ev("decRef", previousBuffer, "", TRUE)>>
                             ELSE <<>>)
                         \o <<Ev("unlock", buffer, locked1[buffer], TRUE),
                              Ev("queueBuffer", buffer, locked2[buffer], TRUE)>>
                \* --- the new buffer
                resize   == ResizeNeeded(width, height, dq)
                realloc  == resize /\ depth.data # 0
                heap1    == IF realloc THEN fimgFreeMemory(heap, depth.data)
                            ELSE heap
                allocFail == realloc /\ a = 0
                evDq     == <<Ev("dequeueBuffer", dq, "", dq # 0),
                              Ev("lockBuffer", dq, "", TRUE)>>
                evAlloc  == IF realloc
                            THEN <<Ev("free", depth.data, "", TRUE),
                                   Ev("alloc", a, "", a # 0)>>
                            ELSE <<>>
                evPin    == <<Ev("incRef", dq, "", TRUE),
                              Ev("lock", dq, "rw", lockOk)>>
            IN  /\ dq \in DequeueChoices(state1, head)
                /\ head' = NextHead(head, dq)
                /\ a \in AllocChoices(heap1)
                \* an answer that is never asked for is fixed
                /\ ~tryCopy => prevLockOk
                /\ ~(doCopy /\ blitengine # 0) => blitErr = 0
                /\ (dq = 0 \/ ~realloc) => a = 0
                /\ (dq = 0 \/ allocFail) => lockOk
                /\ dirtyRegion' = dirty1
                /\ oldDirtyRegion' = IF hasDirty THEN dirty1 ELSE oldDirtyRegion
                /\ previousBuffer' = buffer
                /\ buffer' = dq
                /\ IF dq = 0
                   THEN \* buffer->width on a null buffer
                        /\ crashed' = TRUE
                        /\ ret' = [op |-> "swapBuffers", result |-> "crash"]
                        /\ events' = evCopy \o evQueue \o evDq
                        /\ bufState' = state1
                        /\ refs' = refs1
                        /\ locked' = locked2
                        /\ phase' = "off"
                        /\ UNCHANGED <<bits, width, height, depth, heap, eglError>>
                   ELSE /\ crashed' = FALSE
                        /\ bufState' = dequeueBuffer(state1, dq)
                        /\ width' = BufWidth(dq)
                        /\ height' = BufHeight(dq)
                        /\ depth' = IF realloc
                                    THEN [depth EXCEPT !.width = BufWidth(dq),
                                                       !.height = BufHeight(dq),
                                                       !.stride = BufStride(dq),
                                                       !.data = a]
                                    ELSE depth
                        /\ heap' = IF realloc THEN fimgAllocMemory(heap1, a)
                                   ELSE heap
                        /\ refs' = IF allocFail THEN refs1 ELSE incRef(refs1, dq)
                        /\ locked' = IF ~allocFail /\ lockOk
                                     THEN lock(locked2, dq, "rw") ELSE locked2
                        /\ bits' = IF ~allocFail /\ lockOk
                           THEN MappedAddress(dq) ELSE bits
                        /\ eglError' = IF allocFail THEN "EGL_BAD_ALLOC"
                                       ELSE IF ~lockOk THEN "EGL_BAD_ACCESS"
                                       ELSE eglError
                        /\ ret' = [op |-> "swapBuffers",
                                   result |-> IF allocFail \/ ~lockOk
                                              THEN "EGL_FALSE" ELSE "EGL_TRUE"]
                        /\ events' = evCopy \o evQueue \o evDq \o evAlloc
                                     \o (IF allocFail THEN <<>> ELSE evPin)
                        /\ phase' = IF /\ phase = "connected"
                                       /\ (tryCopy => prevLockOk)
                                       /\ (allocFail \/ lockOk)
                                    THEN "connected" ELSE "off"

\* the FGLPlane that bindDrawSurface hands to fglSetColorBuffer and
\* bindReadSurface hands to fglSetReadBuffer, for current buffer b and bits
colorPlane(b, vaddr) ==
    [width |-> BufWidth(b), height |-> BufHeight(b), stride |-> BufStride(b),
     data |-> vaddr, format |-> BufFormat(b)]

\* ------------------------------------------------------------------------
\* Spec: one window surface and its callers
\* ------------------------------------------------------------------------
Init ==
    /\ lhs = NoRect
    /\ rhs = NoRect
    /\ reg = EmptyRegion
    /\ isect = NoRect
    /\ gpc = "idle"
    /\ NoCopy
    /\ \E f \in DepthFormats, n \in NominalSizes,
          d \in IndeterminateRects, od \in IndeterminateRects,
          engine \in BlitEngines :
          Constructed(f, n, d, od, engine)

Next ==
    \/ \E dq \in {0} \cup Buffers, a \in {0} \cup Addrs, lockOk \in BOOLEAN :
          Connect(dq, a, lockOk)
    \/ \E q \in SwapRequests : SetSwapRectangle(q[1], q[2], q[3], q[4])
    \/ \E prevLockOk \in BOOLEAN, blitErr \in BlitErrors, dq \in {0} \cup Buffers,
          a \in {0} \cup Addrs, lockOk \in BOOLEAN :
          SwapBuffers(prevLockOk, blitErr, dq, a, lockOk)
    \/ Disconnect
    \/ Destroy

Spec == Init /\ [][Next]_vars

\* ------------------------------------------------------------------------
\* SpecRegion
\* ------------------------------------------------------------------------
GridRects == {Rect(l, t, r, b) : l \in 0..GridMax, t \in 0..GridMax,
                                 r \in 0..GridMax, b \in 0..GridMax}

InitRegion ==
    /\ lhs \in GridRects
    /\ rhs \in GridRects
    /\ reg = EmptyRegion
    /\ isect = NoRect
    /\ gpc = "input"
    /\ Constructed(0, <<100, 100>>, Rect(0, 0, 0, 0), Rect(0, 0, 0, 0), 0)
    /\ NoCopy

\* evaluate Region::subtract(lhs, rhs) and Rect(lhs).andSelf(rhs)
ApplySubtract ==
    /\ gpc = "input"
    /\ reg' = subtract(lhs, rhs)
    /\ isect' = andSelf(lhs, rhs)
    /\ gpc' = "done"
    /\ UNCHANGED <<lhs, rhs, surfaceVars, envVars, obsVars, variantVars,
                   copyVars>>

NextRegion == ApplySubtract

SpecRegion == InitRegion /\ [][NextRegion]_vars

\* ------------------------------------------------------------------------
\* SpecVariants: the pixmap and pbuffer surfaces (and a window surface as
\* constructed), with the methods they inherit from FGLSurface
\* ------------------------------------------------------------------------
\* the pixel format f of a pbuffer; Z_16 and NONE are not colour formats
PixelFormats == {"A_8", "RGB_565", "RGBA_8888", "RGBX_8888", "Z_16", "NONE"}

\* (w, h) of a pixmap or pbuffer
PlaneSizes == {<<2, 2>>, <<4, 2>>}

\* addresses the allocator can hand out to a surface with two planes
PlaneAddrs == 1..(NumAddrs + 1)

\* "size_t size = w*h; switch (f) ..." of FGLPbufferSurface::FGLPbufferSurface
pbufferSize(w, h, f) ==
    CASE f = "A_8"       -> (w * h) * 1
      [] f = "RGB_565"   -> (w * h) * 2
      [] f = "RGBA_8888" -> (w * h) * 4
      [] f = "RGBX_8888" -> (w * h) * 4
      [] OTHER           -> w * h

\* the call fimgAllocMemory(size) for the colour or the depth plane, returning a
EvAlloc(a, what, size) ==
    [op |-> "alloc", buf |-> a, src |-> size, info |-> what, ok |-> a # 0,
     region |-> <<>>]

\* the fields of FGLWindowSurface and its collaborators, which a pixmap or
\* pbuffer surface does not have
NoWindow ==
    /\ buffer = 0
    /\ previousBuffer = 0
    /\ bits = 0
    /\ width = 0
    /\ height = 0
    /\ dirtyRegion = Rect(0, 0, 0, 0)
    /\ oldDirtyRegion = Rect(0, 0, 0, 0)
    /\ blitengine = 0
    /\ bufState = [b \in Buffers |-> "free"]
    /\ head = 1
    /\ refs = [b \in Buffers |-> 0]
    /\ locked = [b \in Buffers |-> "none"]
    /\ crashed = FALSE
    /\ destroyed = FALSE
    /\ phase = "new"
    /\ swapRectRequested = FALSE
    /\ calls = 0
    /\ ret = [op |-> "new", result |-> "EGL_TRUE"]

\* the depth plane a pixmap or pbuffer constructor leaves: allocated with
\* answer a when a depth format was asked for
depthPlane(depthFormat, w, h, a) ==
    IF depthFormat # 0
    THEN [format |-> depthFormat, width |-> w, height |-> h, stride |-> w,
          data |-> a]
    ELSE [format |-> depthFormat, width |-> 0, height |-> 0, stride |-> 0,
          data |-> 0]

\* FGLSurface::FGLSurface and FGLPixmapSurface::FGLPixmapSurface; a is what
\* fimgAllocMemory answers
ConstructedPixmap(depthFormat, w, h, a) ==
    /\ NoWindow
    /\ depthFormat = 0 => a = 0
    /\ variant = "pixmap"
    /\ pbuffer = NoPlane
    /\ depth = depthPlane(depthFormat, w, h, a)
    /\ heap = {a} \ {0}
    /\ eglError = IF depthFormat # 0 /\ a = 0 THEN "EGL_BAD_ALLOC" ELSE "EGL_SUCCESS"
    /\ events = IF depthFormat # 0 THEN <<EvAlloc(a, "depth", (w * h) * 4)>>
                ELSE <<>>

\* FGLSurface::FGLSurface and FGLPbufferSurface::FGLPbufferSurface; a1 and a2
\* are what fimgAllocMemory answers for the colour and for the depth plane
ConstructedPbuffer(depthFormat, w, h, f, a1, a2) ==
    /\ NoWindow
    /\ depthFormat = 0 => a2 = 0
    /\ a2 # 0 => a2 # a1
    /\ variant = "pbuffer"
    /\ pbuffer = [format |-> f, width |-> w, height |-> h, stride |-> w,
                  data |-> a1]
    /\ depth = depthPlane(depthFormat, w, h, a2)
    /\ heap = {a1, a2} \ {0}
    /\ eglError = IF depthFormat # 0 /\ a2 = 0 THEN "EGL_BAD_ALLOC" ELSE "EGL_SUCCESS"
    /\ events = <<EvAlloc(a1, "color", pbufferSize(w, h, f))>>
                \o (IF depthFormat # 0 THEN <<EvAlloc(a2, "depth", (w * h) * 4)>>
                    ELSE <<>>)

\* initCheck() of the three subclasses
initCheck ==
    CASE variant = "window"  -> TRUE
      [] variant = "pixmap"  -> depth.format = 0 \/ depth.data # 0
      [] variant = "pbuffer" -> pbuffer.data # 0

\* FGLSurface::swapBuffers returning EGL_TRUE
baseSwapBuffersTrue == "EGL_TRUE"

\* what FGLSurface::swapBuffers returns
baseSwapBuffers == "EGL_FALSE"

\* a call of a method that pixmap and pbuffer surfaces inherit from
\* FGLSurface: none of them touches a field or a collaborator
BaseCall(op, result) ==
    /\ Running
    /\ variant \in {"pixmap", "pbuffer"}
    /\ ret' = [op |-> op, result |-> result]
    /\ events' = <<>>
    /\ UNCHANGED <<regionVars, surfaceVars, envVars, variantVars, copyVars,
                   crashed, destroyed, phase, swapRectRequested>>

\* FGLSurface::connect
BaseConnect == BaseCall("connect", "EGL_TRUE")

\* FGLSurface::disconnect
BaseDisconnect == BaseCall("disconnect", "void")

\* FGLSurface::swapBuffers
BaseSwapBuffers == BaseCall("swapBuffers", baseSwapBuffers)

\* FGLSurface::setSwapRectangle
BaseSetSwapRectangle == BaseCall("setSwapRectangle", "EGL_FALSE")

\* ~FGLPbufferSurface or ~FGLPixmapSurface, followed by FGLSurface::~FGLSurface
DestroyOffscreen ==
    /\ Running
    /\ variant \in {"pixmap", "pbuffer"}
    /\ heap' = fimgFreeMemory(
                   IF variant = "pbuffer" THEN fimgFreeMemory(heap, pbuffer.data)
                   ELSE heap,
                   depth.data)
    /\ events' = (IF variant = "pbuffer"
                  THEN <<Ev("free", pbuffer.data, "color", TRUE)>> ELSE <<>>)
                 \o <<Ev("free", depth.data, "depth", TRUE)>>
    /\ destroyed' = TRUE
    /\ ret' = [op |-> "destroy", result |-> "void"]
    /\ UNCHANGED <<regionVars, surfaceVars, variantVars, copyVars, bufState,
                   head, refs, locked, eglError, crashed, phase,
                   swapRectRequested>>

InitVariants ==
    /\ lhs = NoRect
    /\ rhs = NoRect
    /\ reg = EmptyRegion
    /\ isect = NoRect
    /\ gpc = "idle"
    /\ NoCopy
    /\ \/ \E f \in DepthFormats :
             Constructed(f, <<50, 50>>, Rect(0, 0, 0, 0), Rect(0, 0, 0, 0), 0)
       \/ \E f \in DepthFormats, s \in PlaneSizes, a \in {0} \cup PlaneAddrs :
             ConstructedPixmap(f, s[1], s[2], a)
       \/ \E f \in DepthFormats, s \in PlaneSizes, pf \in PixelFormats,
             a1 \in {0} \cup PlaneAddrs, a2 \in {0} \cup PlaneAddrs :
             ConstructedPbuffer(f, s[1], s[2], pf, a1, a2)

NextVariants ==
    \/ BaseConnect
    \/ BaseDisconnect
    \/ BaseSwapBuffers
    \/ BaseSetSwapRectangle
    \/ DestroyOffscreen

SpecVariants == InitVariants /\ [][NextVariants]_vars

\* ------------------------------------------------------------------------
\* SpecCopyBlt: copyBlt applied to the regions over a small grid, for every
\* pair of strides and every pixel size
\* ------------------------------------------------------------------------
\* edges of the rectangles the clip regions are built from
CopyEdges == {0, 1, 2}

\* android_native_buffer_t::stride of dst and of src, in pixels
CopyStrides == {2, 3}

\* what getBpp(src->format) returns, in bytes
Bpps == {0, 1, 2}

\* the rectangles over CopyEdges, those of no or inverted area included
CopyRects == {Rect(l, t, r, b) : l \in CopyEdges, t \in CopyEdges,
                                 r \in CopyEdges, b \in CopyEdges}

\* the regions passed as clip: every Region that Region::subtract returns for
\* rectangles over CopyEdges, and every Region that holds one or two arbitrary
\* rectangles over CopyEdges
ClipRegions ==
       {subtract(l, r) : l \in CopyRects, r \in CopyRects}
    \cup {Emit(EmptyRegion, r1) : r1 \in CopyRects}
    \cup {Emit(Emit(EmptyRegion, r1), r2) : r1 \in CopyRects, r2 \in CopyRects}

\* memcpy(d, s, size): byte d + k of dst_bits receives byte s + k of src_bits
memcpyBytes(d, s, size) == {<<d + k, s + k>> : k \in 0..(size - 1)}

\* "do { memcpy(d, s, size); d += dbpr; s += sbpr; } while (--h > 0)"
RECURSIVE copyRows(_, _, _, _, _, _)
copyRows(d, s, size, h, dbpr, sbpr) ==
    memcpyBytes(d, s, size)
    \cup (IF h - 1 > 0 THEN copyRows(d + dbpr, s + sbpr, size, h - 1, dbpr, sbpr)
          ELSE {})

\* a skip test that looks at the width only
skipRectWidthOnly(w, h) == w <= 0

\* "if (w <= 0 || h<=0) continue"
skipRect(w, h) == w <= 0 \/ h <= 0

\* a collapse test that compares the two pitches only
collapsedOnEqualPitch(dbpr, sbpr, size) == dbpr = sbpr

\* "if (dbpr==sbpr && size==sbpr)": the rows are contiguous on both sides and
\* the rectangle is copied by one memcpy of size * h bytes
collapsed(dbpr, sbpr, size) == dbpr = sbpr /\ size = sbpr

\* one turn of the loop of the manual copy, for rectangle r
copyRect(r, dStride, sStride, bytes) ==
    LET w    == r.right - r.left
        h    == r.bottom - r.top
        size == w * bytes
        s    == (r.left + sStride * r.top) * bytes
        d    == (r.left + dStride * r.top) * bytes
        dbpr == dStride * bytes
        sbpr == sStride * bytes
        one  == collapsed(dbpr, sbpr, size)
    IN  IF skipRect(w, h) THEN {}
        ELSE copyRows(d, s, IF one THEN size * h ELSE size,
                      IF one THEN 1 ELSE h, dbpr, sbpr)

\* the manual copy of copyBlt: the (dst byte, src byte) pairs it copies
manualCopy(region, dStride, sStride, bytes) ==
    UNION {copyRect(region.storage[i], dStride, sStride, bytes) :
              i \in 1..region.count}

\* FGLWindowSurface::copyBlt(dst, dst_vaddr, src, src_vaddr, clip); blitErr is
\* what copybit->blit answers; dst and src are buffers 1 and 2
CopyBlt(blitErr) ==
    /\ cpc = "input"
    /\ blitengine = 0 => blitErr = 0
    /\ events' = copyBltEvents(1, 2, clipArg, blitengine, blitErr)
    /\ copied' = IF manualCopyRuns(blitengine, copyBltErr(blitengine, blitErr))
                 THEN manualCopy(clipArg, dstStride, srcStride, bpp)
                 ELSE {}
    /\ cpc' = "done"
    /\ UNCHANGED <<clipArg, dstStride, srcStride, bpp, regionVars, surfaceVars,
                   envVars, variantVars, ret, crashed, destroyed, phase,
                   swapRectRequested, calls, iterVars, frameVars,
                   displayVars>>

InitCopyBlt ==
    /\ lhs = NoRect
    /\ rhs = NoRect
    /\ reg = EmptyRegion
    /\ isect = NoRect
    /\ gpc = "idle"
    /\ \E engine \in BlitEngines :
          Constructed(0, <<100, 100>>, Rect(0, 0, 0, 0), Rect(0, 0, 0, 0), engine)
    /\ clipArg \in ClipRegions
    /\ dstStride \in CopyStrides
    /\ srcStride \in CopyStrides
    /\ bpp \in Bpps
    /\ copied = {}
    /\ cpc = "input"
    /\ NoIteration
    /\ NoFrame
    /\ NoDisplay

NextCopyBlt == \E blitErr \in BlitErrors : CopyBlt(blitErr)

SpecCopyBlt == InitCopyBlt /\ [][NextCopyBlt]_vars

\* ------------------------------------------------------------------------
\* SpecIterator: region_iterator objects constructed over a Region that
\* Region::subtract returned, and the next() calls made on them
\* ------------------------------------------------------------------------
\* the rectangles subtracted from: one that has room for all four strips, one
\* of no area
IterLhs == {Rect(0, 0, GridMax, GridMax), Rect(1, 1, 1, 1)}

\* region_iterator(region): b(region.begin()), e(region.end())
regionIterator(region) == [b |-> 0, e |-> region.count]

\* iterate that does not advance b
iterateWithoutAdvance(itr, region, rect) ==
    IF itr.b # itr.e
    THEN [ret |-> 1, rect |-> region.storage[itr.b + 1], it |-> itr]
    ELSE [ret |-> 0, rect |-> rect, it |-> itr]

\* region_iterator::iterate(self, rect): the value returned, *rect and the
\* iterator after the call
iterate(itr, region, rect) ==
    IF itr.b # itr.e
    THEN [ret |-> 1, rect |-> region.storage[itr.b + 1],
          it |-> [itr EXCEPT !.b = @ + 1]]
    ELSE [ret |-> 0, rect |-> rect, it |-> itr]

\* region_iterator it(reg)
NewIterator ==
    /\ passes < MaxPasses
    /\ it' = regionIterator(reg)
    /\ prevNexts' = nexts
    /\ nexts' = <<>>
    /\ passes' = passes + 1
    /\ UNCHANGED <<regionVars, surfaceVars, envVars, obsVars, variantVars,
                   copyArgVars, frameVars, displayVars>>

\* it.next(&it, &rect), as copybit->blit calls it
IterateNext ==
    /\ it # NoIterator
    /\ Len(nexts) < MaxNexts
    /\ LET rect == IF nexts = <<>> THEN NoRect ELSE nexts[Len(nexts)].rect
           out  == iterate(it, reg, rect)
       IN  /\ it' = out.it
           /\ nexts' = Append(nexts, [ret |-> out.ret, rect |-> out.rect])
    /\ UNCHANGED <<regionVars, surfaceVars, envVars, obsVars, variantVars,
                   copyArgVars, frameVars, displayVars, prevNexts,
                   passes>>

InitIterator ==
    /\ lhs \in IterLhs
    /\ rhs \in GridRects
    /\ reg = subtract(lhs, rhs)
    /\ isect = andSelf(lhs, rhs)
    /\ gpc = "done"
    /\ Constructed(0, <<100, 100>>, Rect(0, 0, 0, 0), Rect(0, 0, 0, 0), 1)
    /\ NoCopy

NextIterator ==
    \/ NewIterator
    \/ IterateNext

SpecIterator == InitIterator /\ [][NextIterator]_vars

\* ------------------------------------------------------------------------
\* SpecFrames: an application that draws frames through a connected window
\* surface whose provider alternates buffers 1 and 2 (both 100 x 100), every
\* call succeeding; the first frame updates the whole buffer, each later one
\* a non-empty rectangle inside it, and the application draws exactly the
\* rectangle it requested
\* ------------------------------------------------------------------------
\* the (l, t, w, h) of the non-empty rectangles inside a 100 x 100 buffer
\* whose edges are multiples of 50
FrameRequests ==
    {<<l, t, w, h>> \in {0, 50} \X {0, 50} \X {50, 100} \X {50, 100} :
        l + w <= 100 /\ t + h <= 100}

\* pixel p lies inside rectangle r
Covers(r, p) ==
    r.left <= p[1] /\ p[1] < r.right /\ r.top <= p[2] /\ p[2] < r.bottom

\* the buffer the provider hands out while b is on screen
OtherBuffer(b) == 3 - b

\* a copyBlt that copies nothing
copyPixelsNothing(dstPix, srcPix, region) == dstPix

\* what copyBlt leaves in the destination: the pixels inside a rectangle of
\* the region are the source's
copyPixels(dstPix, srcPix, region) ==
    [p \in SamplePixels |->
        IF \E i \in 1..region.count : Covers(region.storage[i], p)
        THEN srcPix[p] ELSE dstPix[p]]

\* FGLWindowSurface::connect, every call succeeding
FrameConnect ==
    /\ buffer = 0
    /\ Connect(head, 0, TRUE)

\* FGLWindowSurface::setSwapRectangle for the next frame
RequestFrame(l, t, w, h) ==
    /\ buffer # 0
    /\ fpc = "idle"
    /\ frame < MaxFrames
    /\ frame = 0 => <<l, t, w, h>> = <<0, 0, BufWidth(buffer), BufHeight(buffer)>>
    /\ dirtyRegion' = Rect(l, t, l + w, t + h)
    /\ ret' = [op |-> "setSwapRectangle", result |-> "EGL_TRUE"]
    /\ events' = <<>>
    /\ swapRectRequested' = TRUE
    /\ calls' = calls + 1
    /\ frame' = frame + 1
    /\ fpc' = "requested"
    /\ UNCHANGED <<buffer, previousBuffer, bits, width, height, depth,
                   oldDirtyRegion, blitengine, envVars, crashed, destroyed,
                   phase, regionVars, variantVars, copyArgVars, displayVars,
                   iterVars,
                   pix, intended>>

\* the application draws the frame through bits: exactly the rectangle it
\* requested
DrawFrame ==
    /\ fpc = "requested"
    /\ pix' = [pix EXCEPT ![buffer] =
                  [p \in SamplePixels |->
                      IF Covers(dirtyRegion, p) THEN frame ELSE @[p]]]
    /\ intended' = [p \in SamplePixels |->
                       IF Covers(dirtyRegion, p) THEN frame ELSE intended[p]]
    /\ fpc' = "drawn"
    /\ UNCHANGED <<regionVars, surfaceVars, envVars, obsVars, variantVars,
                   copyArgVars, displayVars, iterVars, frame>>

\* FGLWindowSurface::swapBuffers, every call succeeding and the new buffer
\* of the size of the old one
PresentFrame ==
    /\ fpc = "drawn"
    /\ buffer # 0
    /\ LET hasDirty == ~isEmpty(dirtyRegion)
           dirty1   == IF hasDirty THEN ClipDirty(dirtyRegion, buffer)
                       ELSE dirtyRegion
           copyBack == CopyBack(oldDirtyRegion, dirty1)
           doCopy   == hasDirty /\ previousBuffer # 0 /\ ~regionIsEmpty(copyBack)
           refs1    == IF previousBuffer # 0 THEN decRef(refs, previousBuffer)
                       ELSE refs
           dq       == OtherBuffer(buffer)
       IN  /\ pix' = IF doCopy
                     THEN [pix EXCEPT ![buffer] =
                              copyPixels(@, pix[previousBuffer], copyBack)]
                     ELSE pix
           /\ events' = IF doCopy
                        THEN copyBltEvents(buffer, previousBuffer, copyBack,
                                           blitengine, 0)
                        ELSE <<>>
           /\ dirtyRegion' = dirty1
           /\ oldDirtyRegion' = IF hasDirty THEN dirty1 ELSE oldDirtyRegion
           /\ refs' = incRef(refs1, dq)
           /\ locked' = lock(unlock(locked, buffer), dq, "rw")
           /\ bufState' = dequeueBuffer(queueBuffer(bufState, buffer), dq)
           /\ head' = OtherBuffer(dq)
           /\ previousBuffer' = buffer
           /\ buffer' = dq
           /\ bits' = MappedAddress(dq)
    /\ ret' = [op |-> "swapBuffers", result |-> "EGL_TRUE"]
    /\ swapRectRequested' = FALSE
    /\ calls' = calls + 1
    /\ fpc' = "idle"
    /\ UNCHANGED <<width, height, depth, blitengine, heap, eglError, crashed,
                   destroyed, phase, regionVars, variantVars, copyArgVars,
                   displayVars, iterVars, intended, frame>>

InitFrames ==
    /\ lhs = NoRect
    /\ rhs = NoRect
    /\ reg = EmptyRegion
    /\ isect = NoRect
    /\ gpc = "idle"
    /\ NoCopy
    /\ \E d \in IndeterminateRects, od \in IndeterminateRects,
          engine \in BlitEngines :
          Constructed(0, <<100, 100>>, d, od, engine)

NextFrames ==
    \/ FrameConnect
    \/ \E q \in FrameRequests : RequestFrame(q[1], q[2], q[3], q[4])
    \/ DrawFrame
    \/ PresentFrame

SpecFrames == InitFrames /\ [][NextFrames]_vars

\* ------------------------------------------------------------------------
\* SpecDisplay: the EGL entry points that deal with the display, the
\* configuration table and the per-thread error, called from several threads
\* ------------------------------------------------------------------------
\* NELEM(gConfigs)
NumConfigs == 8

\* the EGLDisplay values passed as dpy: 0 is EGL_NO_DISPLAY
DisplayHandles == {0, 1}

\* the native display ids passed to eglGetDisplay: 0 is EGL_DEFAULT_DISPLAY
NativeDisplays == {0, 1}

\* the name argument of eglQueryString
QueryNames == {"EGL_CLIENT_APIS", "EGL_EXTENSIONS", "EGL_VENDOR", "EGL_VERSION",
               "other"}

\* the config_size argument
ConfigSizes == {0, 7, 8, 9}

\* what the read of ((FGLDisplay *)dpy)->initialized, at address 1, can do
WildReads == {"crash", "EGL_TRUE", "EGL_FALSE"}

\* isDisplayValid
isDisplayValid(dpy) == dpy = 1

\* pthread_key_create(&key, NULL): the key it stores, a fresh one while
\* there is one, else key is left as it was
pthreadKeyCreate(key) ==
    LET made == IF key = -1 THEN 0 ELSE key
    IN  IF made < MaxKeys THEN made + 1 ELSE key

\* eglErrorKey after setError
setErrorKey(key) == IF key = -1 THEN pthreadKeyCreate(key) ELSE key

\* the thread-specific values after setError(error) on thread t
setError(tl, key, t, error) ==
    [tl EXCEPT ![t][setErrorKey(key)] = error]

\* a call that fails with error on thread t, result being what it returns
FailWith(t, op, error, result) ==
    /\ eglErrorKey' = setErrorKey(eglErrorKey)
    /\ tls' = setError(tls, eglErrorKey, t, error)
    /\ recorded' = [recorded EXCEPT ![t] = error]
    /\ ret' = [op |-> op, result |-> result]
    /\ outArgs' = [NoOut EXCEPT !.thread = t]
    /\ crashed' = FALSE

\* a call that succeeds on thread t: no error is stored
Succeed(t, op, result, written) ==
    /\ ret' = [op |-> op, result |-> result]
    /\ outArgs' = [written EXCEPT !.thread = t]
    /\ crashed' = FALSE
    /\ UNCHANGED <<eglErrorKey, tls, recorded>>

\* a call that reads through the pointer (FGLDisplay *)1 and faults
Fault(t, op) ==
    /\ ret' = [op |-> op, result |-> "crash"]
    /\ outArgs' = [NoOut EXCEPT !.thread = t]
    /\ crashed' = TRUE
    /\ UNCHANGED <<eglErrorKey, tls, recorded>>

\* what a call on the display leaves alone
DisplayFrame ==
    UNCHANGED <<regionVars, surfaceVars, envVars, variantVars, copyArgVars,
                iterVars, frameVars, events, destroyed, phase,
                swapRectRequested, eglContextKey>>

\* eglGetError on thread t
eglGetError(t) ==
    /\ Running
    /\ DisplayFrame
    /\ IF eglErrorKey = -1
       THEN /\ ret' = [op |-> "eglGetError", result |-> "EGL_SUCCESS"]
            /\ tls' = tls
       ELSE /\ ret' = [op |-> "eglGetError", result |-> tls[t][eglErrorKey]]
            /\ tls' = [tls EXCEPT ![t][eglErrorKey] = "EGL_SUCCESS"]
    /\ recorded' = [recorded EXCEPT ![t] = "EGL_SUCCESS"]
    /\ outArgs' = [NoOut EXCEPT !.thread = t]
    /\ UNCHANGED <<initialized, eglErrorKey, crashed>>

\* eglGetDisplay(display_id) on thread t
eglGetDisplay(t, id) ==
    /\ Running
    /\ DisplayFrame
    /\ eglErrorKey' = IF eglContextKey = -1 THEN pthreadKeyCreate(eglErrorKey)
                      ELSE eglErrorKey
    /\ ret' = [op |-> "eglGetDisplay", result |-> IF id # 0 THEN "EGL_NO_DISPLAY"
                                                   ELSE "(EGLDisplay)1"]
    /\ outArgs' = [NoOut EXCEPT !.thread = t]
    /\ UNCHANGED <<initialized, tls, recorded, crashed>>

\* eglInitialize(dpy, &major, &minor) on thread t
eglInitialize(t, dpy) ==
    /\ Running
    /\ DisplayFrame
    /\ IF ~isDisplayValid(dpy)
       THEN /\ FailWith(t, "eglInitialize", "EGL_BAD_DISPLAY", "EGL_FALSE")
            /\ UNCHANGED initialized
       ELSE /\ initialized' = TRUE
            /\ Succeed(t, "eglInitialize", "EGL_TRUE",
                       [NoOut EXCEPT !.version = <<1, 3>>])

\* eglTerminate(dpy) on thread t
eglTerminate(t, dpy) ==
    /\ Running
    /\ DisplayFrame
    /\ IF ~isDisplayValid(dpy)
       THEN /\ FailWith(t, "eglTerminate", "EGL_BAD_DISPLAY", "EGL_FALSE")
            /\ UNCHANGED initialized
       ELSE /\ initialized' = FALSE
            /\ Succeed(t, "eglTerminate", "EGL_TRUE", NoOut)

\* eglQueryString(dpy, name) on thread t; rd is what the read made by
\* isDisplayInitialized does
eglQueryString(t, dpy, name, rd) ==
    /\ Running
    /\ DisplayFrame
    /\ UNCHANGED initialized
    /\ ~isDisplayValid(dpy) => rd = "EGL_TRUE"
    /\ IF ~isDisplayValid(dpy)
       THEN FailWith(t, "eglQueryString", "EGL_BAD_DISPLAY", "NULL")
       ELSE IF rd = "crash"
       THEN Fault(t, "eglQueryString")
       ELSE IF rd = "EGL_FALSE"
       THEN FailWith(t, "eglQueryString", "EGL_NOT_INITIALIZED", "NULL")
       ELSE IF name = "other"
       THEN FailWith(t, "eglQueryString", "EGL_BAD_PARAMETER", "NULL")
       ELSE Succeed(t, "eglQueryString", name, NoOut)

\* eglGetConfigs(dpy, configs, config_size, num_config) on thread t; hasNum
\* and hasConfigs say which pointers are non-null, rd is what the read made
\* by isDisplayInitialized does
eglGetConfigs(t, dpy, hasConfigs, size, hasNum, rd) ==
    /\ Running
    /\ DisplayFrame
    /\ UNCHANGED initialized
    /\ ~isDisplayValid(dpy) => rd = "EGL_TRUE"
    /\ IF ~isDisplayValid(dpy)
       THEN FailWith(t, "eglGetConfigs", "EGL_BAD_DISPLAY", "EGL_FALSE")
       ELSE IF rd = "crash"
       THEN Fault(t, "eglGetConfigs")
       ELSE IF rd = "EGL_FALSE"
       THEN FailWith(t, "eglGetConfigs", "EGL_NOT_INITIALIZED", "EGL_FALSE")
       ELSE IF ~hasNum
       THEN FailWith(t, "eglGetConfigs", "EGL_BAD_PARAMETER", "EGL_FALSE")
       ELSE LET num == NumConfigs - 1
                n   == IF hasConfigs THEN min(num, size) ELSE num
            IN  Succeed(t, "eglGetConfigs", "EGL_TRUE",
                        [NoOut EXCEPT !.num = n,
                                      !.hasConfigs = hasConfigs,
                                      !.size = size,
                                      !.configs = IF hasConfigs
                                                  THEN [i \in 1..n |-> i - 1]
                                                  ELSE <<>>])

\* eglChooseConfig(dpy, attrib_list, configs, config_size, num_config) on
\* thread t, for an attrib_list that is null or holds EGL_NONE only: every
\* bit of possibleMatch stays set, defaultConfigAttributes being empty
eglChooseConfig(t, dpy, hasConfigs, size, hasNum) ==
    /\ Running
    /\ DisplayFrame
    /\ UNCHANGED initialized
    /\ IF ~isDisplayValid(dpy)
       THEN FailWith(t, "eglChooseConfig", "EGL_BAD_DISPLAY", "EGL_FALSE")
       ELSE IF ~hasNum
       THEN FailWith(t, "eglChooseConfig", "EGL_BAD_PARAMETER", "EGL_FALSE")
       ELSE LET n == IF hasConfigs THEN min(NumConfigs, size) ELSE NumConfigs
            IN  Succeed(t, "eglChooseConfig", "EGL_TRUE",
                        [NoOut EXCEPT !.num = n,
                                      !.hasConfigs = hasConfigs,
                                      !.size = size,
                                      !.configs = IF hasConfigs
                                                  THEN [i \in 1..n |-> i - 1]
                                                  ELSE <<>>])

InitDisplay ==
    /\ lhs = NoRect
    /\ rhs = NoRect
    /\ reg = EmptyRegion
    /\ isect = NoRect
    /\ gpc = "idle"
    /\ NoCopy
    /\ Constructed(0, <<100, 100>>, Rect(0, 0, 0, 0), Rect(0, 0, 0, 0), 0)

NextDisplay ==
    \E t \in Threads :
        \/ eglGetError(t)
        \/ \E id \in NativeDisplays : eglGetDisplay(t, id)
        \/ \E dpy \in DisplayHandles : eglInitialize(t, dpy)
        \/ \E dpy \in DisplayHandles : eglTerminate(t, dpy)
        \/ \E dpy \in DisplayHandles, name \in QueryNames, rd \in WildReads :
              eglQueryString(t, dpy, name, rd)
        \/ \E dpy \in DisplayHandles, hasConfigs \in BOOLEAN,
              size \in ConfigSizes, hasNum \in BOOLEAN, rd \in WildReads :
              eglGetConfigs(t, dpy, hasConfigs, size, hasNum, rd)
        \/ \E dpy \in DisplayHandles, hasConfigs \in BOOLEAN,
              size \in ConfigSizes, hasNum \in BOOLEAN :
              eglChooseConfig(t, dpy, hasConfigs, size, hasNum)

SpecDisplay == InitDisplay /\ [][NextDisplay]_vars

\* ------------------------------------------------------------------------
\* Properties of SpecRegion
\* ------------------------------------------------------------------------

\* C1: for every pair (lhs, rhs) the pixels of subtract(lhs, rhs) together
\* with the pixels of intersect(lhs, rhs) are exactly the pixels of lhs.
C1_SubtractPlusIntersectIsLhs ==
    gpc = "done" => RegionPoints(reg) \cup Points(isect) = Points(lhs)

\* C2: no rectangle returned by subtract(lhs, rhs) shares a pixel with rhs.
C2_ResultDisjointFromRhs ==
    gpc = "done" => RegionPoints(reg) \cap Points(rhs) = {}

\* C2 witness: subtract has produced all four strips around a non-empty rhs.
C2_Witness ==
    gpc = "done" /\ reg.count = 4 /\ ~isEmpty(rhs) /\ RegionPoints(reg) # {}

\* C3: when intersect(lhs, rhs) is empty, subtract(lhs, rhs) is exactly
\* the one-element region {lhs} for a non-empty lhs, and the empty region for
\* an empty lhs.
C3_DisjointYieldsLhs ==
    (gpc = "done" /\ isEmpty(isect)) =>
        Rects(reg) = IF isEmpty(lhs) THEN <<>> ELSE <<lhs>>

\* the four strips the specification lists for a non-empty lhs, in order,
\* each with the condition under which it is emitted
C4_Strips ==
    LET T == IF lhs.top > rhs.top THEN lhs.top ELSE rhs.top
        B == IF lhs.bottom < rhs.bottom THEN lhs.bottom ELSE rhs.bottom
    IN  << [on |-> lhs.top < rhs.top,
            r  |-> Rect(lhs.left, lhs.top, lhs.right, rhs.top)],
           [on |-> T < B /\ lhs.left < rhs.left,
            r  |-> Rect(lhs.left, T, rhs.left, B)],
           [on |-> T < B /\ lhs.right > rhs.right,
            r  |-> Rect(rhs.right, T, lhs.right, B)],
           [on |-> lhs.bottom > rhs.bottom,
            r  |-> Rect(lhs.left, rhs.bottom, lhs.right, lhs.bottom)] >>

\* C4: on a non-empty lhs subtract emits exactly the strips whose condition
\* holds, in the order top, left, right, bottom; count is their number and
\* never exceeds the capacity of 4.
C4_StripsInFixedOrder ==
    (gpc = "done" /\ ~isEmpty(lhs)) =>
        LET emitted == SelectSeq(C4_Strips, LAMBDA s : s.on)
        IN  /\ reg.count = Len(emitted)
            /\ reg.count <= RegionCapacity
            /\ \A i \in 1..reg.count : reg.storage[i] = emitted[i].r
            /\ \A i \in (reg.count + 1)..RegionCapacity : reg.storage[i] = NoRect

\* C4 witness: all four strips were emitted.
C4_Witness ==
    gpc = "done" /\ ~isEmpty(lhs) /\ reg.count = RegionCapacity

\* C23: the rectangles returned by subtract(lhs, rhs) are pairwise
\* non-overlapping: no pixel belongs to two of them.
C23_ResultRectsPairwiseDisjoint ==
    gpc = "done" =>
        \A i, j \in 1..reg.count :
            i < j => Points(reg.storage[i]) \cap Points(reg.storage[j]) = {}

\* ------------------------------------------------------------------------
\* Properties of Spec
\* ------------------------------------------------------------------------
\* the step is a call of swapBuffers
IsSwapStep == calls' = calls + 1 /\ ret'.op = "swapBuffers"

\* the copyBlt calls among a sequence of events
Copies(evs) == SelectSeq(evs, LAMBDA e : e.op = "copyBlt")

\* C5: after connect() -> present() x N -> disconnect() in which every call
\* to the provider succeeded, the surface's incRef and decRef calls on every
\* buffer cancel out and it holds neither a buffer nor a previous buffer.
C5_RefsBalancedAfterDisconnect ==
    phase = "done" =>
        /\ \A b \in Buffers : refs[b] = 0
        /\ buffer = 0
        /\ previousBuffer = 0

\* C6: a buffer handed to queueBuffer (by swapBuffers or by disconnect) is not
\* pinned by the surface at that moment.
C6_QueuedBufferNotLocked ==
    \A i \in 1..Len(events) :
        events[i].op = "queueBuffer" => events[i].info = "none"

\* C6 witness: a call unpinned a buffer it held for read/write and then
\* queued that buffer.
C6_Witness ==
    \E i, j \in 1..Len(events) :
        /\ i < j
        /\ events[i].op = "unlock" /\ events[i].info = "rw"
        /\ events[j].op = "queueBuffer" /\ events[j].buf = events[i].buf

\* C7: at most one buffer is pinned by the surface for writing at a time.
C7_AtMostOneWritePin ==
    Cardinality({b \in Buffers : locked[b] = "rw"}) <= 1

\* C8: when swapBuffers runs with a non-empty update region and a previous
\* buffer, what it hands to copyBlt is subtract(oldDirtyRegion, dirtyRegion
\* clipped to the current buffer), from the previous buffer into the current
\* one; an empty subtraction makes no copy; old (0,0,100,100) and current
\* (0,0,50,100) copy back exactly {(50,0,100,100)}.
C8_CopyBackIsOldMinusCurrent ==
    [][(IsSwapStep /\ buffer # 0 /\ ~isEmpty(dirtyRegion) /\ previousBuffer # 0) =>
        LET clip   == Rect(max(dirtyRegion.left, 0), max(dirtyRegion.top, 0),
                           min(dirtyRegion.right, BufWidth(buffer)),
                           min(dirtyRegion.bottom, BufHeight(buffer)))
            expect == subtract(oldDirtyRegion, clip)
            pinned == \E i \in 1..Len(events') :
                          /\ events'[i].op = "lock" /\ events'[i].info = "r"
                          /\ events'[i].buf = previousBuffer /\ events'[i].ok
            copies == Copies(events')
        IN  /\ Len(copies) <= 1
            /\ \A i \in 1..Len(copies) :
                  /\ copies[i].buf = buffer
                  /\ copies[i].src = previousBuffer
                  /\ copies[i].region = Rects(expect)
            /\ (expect.count = 0) => copies = <<>>
            /\ (expect.count > 0 /\ pinned) => Len(copies) = 1
            /\ (oldDirtyRegion = Rect(0, 0, 100, 100) /\ clip = Rect(0, 0, 50, 100)
                /\ pinned) =>
                   copies = <<EvCopy(buffer, previousBuffer,
                                     Emit(EmptyRegion, Rect(50, 0, 100, 100)))>>
      ]_vars

\* C8 witness: in a run of successful calls, swapBuffers has copied back
\* exactly the region {(50,0,100,100)}.
C8_Witness ==
    /\ ret.op = "swapBuffers" /\ ret.result = "EGL_TRUE"
    /\ phase = "connected"
    /\ \E i \in 1..Len(events) :
          /\ events[i].op = "copyBlt"
          /\ events[i].region = <<Rect(50, 0, 100, 100)>>

\* C9: swapBuffers copies back, and replaces oldDirtyRegion, only in a frame
\* for which setSwapRectangle was called since the previous swapBuffers (or
\* since construction); otherwise it copies nothing and leaves
\* oldDirtyRegion as it was.
C9_CopyBackOnlyWhenRequested ==
    [][(IsSwapStep /\ ~swapRectRequested) =>
           /\ Copies(events') = <<>>
           /\ oldDirtyRegion' = oldDirtyRegion
      ]_vars

\* C10: after a successful swapBuffers whose new buffer differs in width or
\* height from the recorded dimensions, width and height are the new
\* buffer's and, on a surface created with a depth format, the old depth
\* memory was freed and the depth plane reallocated at the new buffer's
\* width and height.
C10_ResizeReallocatesDepth ==
    [][(/\ IsSwapStep
        /\ ret'.result = "EGL_TRUE"
        /\ (width # BufWidth(buffer') \/ height # BufHeight(buffer'))) =>
           /\ width' = BufWidth(buffer')
           /\ height' = BufHeight(buffer')
           /\ depth.format # 0 =>
                 /\ depth'.width = BufWidth(buffer')
                 /\ depth'.height = BufHeight(buffer')
                 /\ depth'.data # 0
                 /\ depth.data # 0 =>
                       \E i, j \in 1..Len(events') :
                           /\ i < j
                           /\ events'[i].op = "free"
                           /\ events'[i].buf = depth.data
                           /\ events'[j].op = "alloc"
      ]_vars

\* the step is a call of connect
IsConnectStep == calls' = calls + 1 /\ ret'.op = "connect"

\* a call of the given kind among the events failed
Failed(evs, op) == \E i \in 1..Len(evs) : evs[i].op = op /\ ~evs[i].ok

\* the read/write lock of the newly acquired buffer among the events
RwLocks(evs) == SelectSeq(evs, LAMBDA e : e.op = "lock" /\ e.info = "rw")

\* C11: when the depth reallocation inside swapBuffers fails, swapBuffers
\* returns EGL_FALSE with EGL_BAD_ALLOC and width, height and the depth plane
\* (dimensions and memory) are what they were before the call.
C11_FailedReallocKeepsState ==
    [][(IsSwapStep /\ Failed(events', "alloc")) =>
           /\ ret'.result = "EGL_FALSE"
           /\ eglError' = "EGL_BAD_ALLOC"
           /\ width' = width
           /\ height' = height
           /\ depth' = depth
           /\ depth.data \in heap'
      ]_vars

\* C14: connect returns EGL_FALSE with EGL_BAD_ALLOC when dequeueBuffer fails,
\* or when a depth format was requested and the allocation fails; otherwise,
\* if the lock succeeds, it returns EGL_TRUE with width and height those of
\* the acquired buffer, one more reference on it and the buffer pinned for
\* read/write.
C14_ConnectOutcome ==
    [][IsConnectStep =>
        LET dqFail    == Failed(events', "dequeueBuffer")
            allocFail == Failed(events', "alloc")
            lockFail  == Failed(events', "lock")
            asked     == \E i \in 1..Len(events') : events'[i].op = "alloc"
        IN  /\ (dqFail \/ allocFail) =>
                  /\ ret'.result = "EGL_FALSE"
                  /\ eglError' = "EGL_BAD_ALLOC"
            /\ asked <=> (~dqFail /\ depth.format # 0)
            /\ (~dqFail /\ ~allocFail /\ ~lockFail) =>
                  /\ ret'.result = "EGL_TRUE"
                  /\ buffer' = events'[1].buf
                  /\ buffer' # 0
                  /\ width' = BufWidth(buffer')
                  /\ height' = BufHeight(buffer')
                  /\ refs'[buffer'] = refs[buffer'] + 1
                  /\ \A b \in Buffers \ {buffer'} : refs'[b] = refs[b]
                  /\ locked'[buffer'] = "rw"
                  /\ depth.format # 0 => depth'.data # 0
      ]_vars

\* C14 witness: connect has succeeded on a surface with a depth format.
C14_Witness ==
    /\ ret.op = "connect" /\ ret.result = "EGL_TRUE"
    /\ depth.format # 0 /\ depth.data # 0
    /\ buffer # 0 /\ locked[buffer] = "rw" /\ refs[buffer] = 1
    /\ width = BufWidth(buffer) /\ height = BufHeight(buffer)

\* C15: every depth allocation is freed exactly once: the only allocation
\* in use is the one depth.data points to (an allocation is freed before
\* depth.data is given another one), and none is in use after destruction.
C15_DepthFreedExactlyOnce ==
    /\ heap \subseteq {depth.data}
    /\ destroyed => heap = {}

\* C17: in a swapBuffers that copies back, the manual copy runs exactly when
\* there is no accelerator or its blit failed, and the blit's outcome does
\* not decide the call's: swapBuffers fails, and sets an error, only on a
\* null buffer, a failed depth allocation or a failed read/write lock.
C17_ManualCopyIffNoBlit ==
    [][IsSwapStep =>
        LET n        == Len(events')
            hardFail == buffer = 0 \/ Failed(events', "alloc")
                        \/ Failed(RwLocks(events'), "lock")
        IN  /\ \A i \in 1..n : events'[i].op = "copyBlt" =>
                  LET hasBlit == i + 1 <= n /\ events'[i + 1].op = "blit"
                      blitBad == hasBlit /\ ~events'[i + 1].ok
                      manual  == \E j \in {i + 1, i + 2} :
                                    j <= n /\ events'[j].op = "manualCopy"
                  IN  /\ hasBlit <=> blitengine # 0
                      /\ manual <=> (blitengine = 0 \/ blitBad)
            /\ ret'.result # "crash" =>
                  /\ ret'.result = "EGL_FALSE" <=> hardFail
                  /\ ~hardFail => eglError' = eglError
      ]_vars

\* C17 witness: the accelerator's blit failed, the manual copy ran and
\* swapBuffers returned EGL_TRUE.
C17_Witness ==
    /\ ret.op = "swapBuffers" /\ ret.result = "EGL_TRUE"
    /\ \E i \in 1..Len(events) :
          /\ events[i].op = "blit" /\ ~events[i].ok
          /\ i < Len(events) /\ events[i + 1].op = "manualCopy"

\* C19: a swapBuffers call on a connected surface (current buffer pinned and
\* mapped) either completes or returns EGL_FALSE with an error set; when
\* dequeueBuffer delivers no buffer it reports failure and makes no
\* lockBuffer, incRef or lock on a null buffer, nor reads its size.
C19_PresentCompletesOrFails ==
    [][(IsSwapStep /\ buffer # 0 /\ bits = buffer /\ locked[buffer] = "rw") =>
           /\ ~crashed'
           /\ ret'.result \in {"EGL_TRUE", "EGL_FALSE"}
           /\ ret'.result = "EGL_FALSE" => eglError' # "EGL_SUCCESS"
           /\ Failed(events', "dequeueBuffer") => ret'.result = "EGL_FALSE"
           /\ \A i \in 1..Len(events') :
                 events'[i].op \in {"lockBuffer", "incRef", "lock"} =>
                     events'[i].buf # 0
      ]_vars

\* C20: when the read/write lock of the newly acquired buffer fails, connect
\* and swapBuffers return EGL_FALSE with EGL_BAD_ACCESS; when it succeeds,
\* bits is the mapped address of the current buffer, and after a successful
\* swapBuffers the colour plane bindDrawSurface / bindReadSurface expose has
\* the current buffer's width, height, stride, format and mapped address.
C20_LockOutcomeAndColorPlane ==
    [][(IsSwapStep \/ IsConnectStep) =>
        LET rw == RwLocks(events')
        IN  /\ Len(rw) <= 1
            /\ Failed(rw, "lock") =>
                  /\ ret'.result = "EGL_FALSE"
                  /\ eglError' = "EGL_BAD_ACCESS"
            /\ (rw # <<>> /\ ~Failed(rw, "lock")) =>
                  /\ rw[1].buf = buffer'
                  /\ bits' = buffer'
                  /\ locked'[buffer'] = "rw"
            /\ (IsSwapStep /\ ret'.result = "EGL_TRUE") =>
                  /\ rw # <<>>
                  /\ colorPlane(buffer', bits') =
                        [width |-> BufWidth(buffer'), height |-> BufHeight(buffer'),
                         stride |-> BufStride(buffer'), format |-> BufFormat(buffer'),
                         data |-> buffer']
      ]_vars

\* C20 witness: a swapBuffers has succeeded and bits maps the new buffer,
\* which is not the buffer presented.
C20_Witness ==
    /\ ret.op = "swapBuffers" /\ ret.result = "EGL_TRUE"
    /\ buffer # 0 /\ previousBuffer # 0 /\ buffer # previousBuffer
    /\ bits = buffer

\* the surface is connected: it holds a current buffer, pinned for read/write
\* and mapped at bits, and pins no other buffer
Connected ==
    /\ buffer # 0
    /\ bits = MappedAddress(buffer)
    /\ \A b \in Buffers : locked[b] = IF b = buffer THEN "rw" ELSE "none"

\* the step is a call of disconnect
IsDisconnectStep == calls' = calls + 1 /\ ret'.op = "disconnect"

\* the (op, buf) pairs of a sequence of events
OpsOf(evs) == [i \in 1..Len(evs) |-> <<evs[i].op, evs[i].buf>>]

\* C21: disconnect on a connected surface unlocks the current buffer, then
\* queues it (unpinned by then), then drops the reference on it, then the
\* reference on the previous buffer if there is one, and nothing else;
\* afterwards the surface holds no buffer, no previous buffer, no pin and no
\* mapped address, and each reference it dropped is counted once.
C21_DisconnectReleasesInOrder ==
    [][(IsDisconnectStep /\ Connected) =>
           /\ OpsOf(events') =
                  <<<<"unlock", buffer>>, <<"queueBuffer", buffer>>,
                    <<"decRef", buffer>>>>
                  \o (IF previousBuffer # 0
                      THEN <<<<"decRef", previousBuffer>>>> ELSE <<>>)
           /\ events'[1].info = "rw"
           /\ events'[2].info = "none"
           /\ buffer' = 0
           /\ previousBuffer' = 0
           /\ bits' = 0
           /\ \A b \in Buffers :
                 /\ locked'[b] = "none"
                 /\ refs'[b] = refs[b] - (IF b = buffer THEN 1 ELSE 0)
                                       - (IF b = previousBuffer THEN 1 ELSE 0)
           /\ bufState'[buffer] = "front"
      ]_vars

\* C21 witness: after a connect and presents that all succeeded, disconnect
\* has unlocked and queued the current buffer and released it and the
\* previous buffer.
C21_Witness ==
    /\ ret.op = "disconnect" /\ phase = "done"
    /\ Len(events) = 4
    /\ events[1].op = "unlock" /\ events[1].info = "rw"
    /\ events[4].op = "decRef" /\ events[4].buf # events[3].buf
    /\ buffer = 0 /\ bits = 0 /\ \A b \in Buffers : locked[b] = "none"

\* the calls to gralloc, copyBlt and the provider among a sequence of events,
\* without lockBuffer and the calls to the allocator and the accelerator
ProviderCalls(evs) ==
    SelectSeq(evs, LAMBDA e : e.op \in {"lock", "copyBlt", "unlock", "decRef",
                                        "queueBuffer", "dequeueBuffer", "incRef"})

\* C22: a swapBuffers that returns EGL_TRUE makes its calls in this order: the
\* optional copy-back (lock previous for read, copyBlt into the current
\* buffer, unlock previous); decRef of the old previous buffer; unlock of the
\* current buffer; queueBuffer of the current buffer, which becomes the
\* previous buffer with no incRef of its own; dequeueBuffer of the new buffer;
\* incRef of the new buffer; lock of the new buffer for read/write.
C22_PresentEventOrder ==
    [][(IsSwapStep /\ ret'.result = "EGL_TRUE") =>
        LET seq  == ProviderCalls(events')
            tail == (IF previousBuffer # 0
                     THEN <<<<"decRef", previousBuffer>>>> ELSE <<>>)
                    \o <<<<"unlock", buffer>>, <<"queueBuffer", buffer>>,
                         <<"dequeueBuffer", buffer'>>, <<"incRef", buffer'>>,
                         <<"lock", buffer'>>>>
            n    == Len(seq) - Len(tail)
            copy == SubSeq(seq, 1, n)
        IN  /\ n >= 0
            /\ OpsOf(SubSeq(seq, n + 1, Len(seq))) = tail
            /\ seq[Len(seq)].info = "rw" /\ seq[Len(seq)].ok
            /\ \/ copy = <<>>
               \/ /\ previousBuffer # 0
                  /\ OpsOf(copy) = <<<<"lock", previousBuffer>>>>
                  /\ copy[1].info = "r" /\ ~copy[1].ok
               \/ /\ previousBuffer # 0
                  /\ OpsOf(copy) = <<<<"lock", previousBuffer>>, <<"copyBlt", buffer>>,
                                     <<"unlock", previousBuffer>>>>
                  /\ copy[1].info = "r" /\ copy[1].ok
                  /\ copy[2].src = previousBuffer
            /\ previousBuffer' = buffer
            /\ buffer' # 0
            /\ bufState'[buffer] = "front"
            /\ bufState'[buffer'] = "dequeued"
            /\ \A b \in Buffers :
                  refs'[b] = refs[b] - (IF b = previousBuffer THEN 1 ELSE 0)
                                     + (IF b = buffer' THEN 1 ELSE 0)
      ]_vars

\* C22 witness: a swapBuffers has returned EGL_TRUE after copying back from
\* the previous buffer and releasing the buffer before that.
C22_Witness ==
    /\ ret.op = "swapBuffers" /\ ret.result = "EGL_TRUE"
    /\ phase = "connected"
    /\ \E i, j, k \in 1..Len(events) :
          /\ i < j /\ j < k
          /\ events[i].op = "copyBlt"
          /\ events[j].op = "decRef"
          /\ events[k].op = "dequeueBuffer" /\ events[k].buf = buffer

\* rectangle r lies inside the bounds (0, 0, width, height) of buffer b
InsideBuffer(r, b) ==
    /\ 0 <= r.left /\ r.left <= r.right /\ r.right <= BufWidth(b)
    /\ 0 <= r.top /\ r.top <= r.bottom /\ r.bottom <= BufHeight(b)

\* C26: in a run of connect, setSwapRectangle and swapBuffers calls that all
\* succeed, every rectangle that swapBuffers passes to copyBlt lies inside
\* the bounds of the destination (current) buffer and of the source
\* (previous) buffer.
C26_CopyBackInsideBothBuffers ==
    [][(IsSwapStep /\ Connected /\ phase = "connected" /\ phase' = "connected") =>
        \A i \in 1..Len(events') :
            events'[i].op = "copyBlt" =>
                \A k \in 1..Len(events'[i].region) :
                    /\ InsideBuffer(events'[i].region[k], events'[i].buf)
                    /\ InsideBuffer(events'[i].region[k], events'[i].src)
      ]_vars

\* C28: on every path, failed connect or swapBuffers calls followed by
\* disconnect or destruction included, the surface has called decRef on no
\* buffer more often than incRef.
C28_NoDecRefWithoutIncRef ==
    \A b \in Buffers : refs[b] >= 0

\* C29: every unlock the surface issues finds the buffer pinned by an earlier
\* successful lock, whatever calls came before and whichever lock attempts
\* failed; and bits is non-null only while the current buffer is pinned for
\* read/write.
C29_UnlockOnlyAfterLock ==
    /\ \A i \in 1..Len(events) :
          events[i].op = "unlock" => events[i].info # "none"
    /\ bits # 0 => (buffer # 0 /\ locked[buffer] = "rw")

\* C30: on a surface that holds no buffer (before connect, after disconnect)
\* swapBuffers returns EGL_FALSE with EGL_BAD_ACCESS and changes nothing, and
\* neither it nor disconnect makes a call to the provider: disconnect queues,
\* unlocks and releases nothing, and never passes a null buffer to
\* queueBuffer.
C30_DisconnectedMakesNoProviderCall ==
    [][(calls' = calls + 1 /\ buffer = 0 /\ previousBuffer = 0
        /\ ret'.op \in {"swapBuffers", "disconnect"}) =>
           /\ events' = <<>>
           /\ UNCHANGED <<surfaceVars, bufState, head, refs, locked, heap>>
           /\ ret'.op = "swapBuffers" =>
                 /\ ret'.result = "EGL_FALSE"
                 /\ eglError' = "EGL_BAD_ACCESS"
      ]_vars

\* ------------------------------------------------------------------------
\* Properties of SpecVariants
\* ------------------------------------------------------------------------

\* C12: for a window, pixmap or pbuffer surface as constructed, initCheck()
\* is true exactly when no allocation its constructor asked for failed: the
\* depth plane when a depth format was requested and, for a pbuffer, the
\* colour plane.
C12_InitCheckIffAllocated ==
    ret.op = "new" => (initCheck <=> ~Failed(events, "alloc"))

\* C13: a pbuffer constructed with a pixel format other than A_8, RGB_565,
\* RGBA_8888 or RGBX_8888 asked the allocator for no colour memory, holds no
\* colour plane, and its initCheck() is false.
C13_UnsupportedFormatNotAllocated ==
    (/\ ret.op = "new"
     /\ variant = "pbuffer"
     /\ pbuffer.format \notin {"A_8", "RGB_565", "RGBA_8888", "RGBX_8888"}) =>
        /\ \A i \in 1..Len(events) : events[i].info # "color"
        /\ pbuffer.data = 0
        /\ ~initCheck

\* C16: on a pixmap or pbuffer surface swapBuffers returns EGL_FALSE and
\* changes nothing of the surface, connect returns EGL_TRUE, and disconnect
\* does nothing.
C16_OffscreenPresentFails ==
    [][(calls' = calls + 1 /\ variant \in {"pixmap", "pbuffer"}) =>
           /\ ret'.op = "swapBuffers" =>
                 /\ ret'.result = "EGL_FALSE"
                 /\ UNCHANGED <<surfaceVars, variantVars, envVars>>
                 /\ events' = <<>>
           /\ ret'.op = "connect" =>
                 /\ ret'.result = "EGL_TRUE"
                 /\ UNCHANGED <<surfaceVars, variantVars, envVars>>
           /\ ret'.op = "disconnect" =>
                 /\ UNCHANGED <<surfaceVars, variantVars, envVars>>
                 /\ events' = <<>>
      ]_vars

\* C16 witness: swapBuffers was called on a pbuffer surface that holds both
\* its planes.
C16_Witness ==
    /\ variant = "pbuffer" /\ pbuffer.data # 0 /\ depth.data # 0
    /\ ret.op = "swapBuffers" /\ ret.result = "EGL_FALSE"

\* ------------------------------------------------------------------------
\* Properties of SpecCopyBlt
\* ------------------------------------------------------------------------
\* the bytes of pixel (x, y) in a buffer of the given stride: the pixel is
\* bytes wide and starts at (x + stride * y) * bytes
PixelBytes(x, y, stride, bytes) ==
    {(x + stride * y) * bytes + c : c \in 0..(bytes - 1)}

\* C18: when the manual copy of copyBlt runs, whatever the region and the
\* two strides, a rectangle with width <= 0 or height <= 0 copies nothing,
\* and the bytes copied are exactly, for every pixel (x, y) with
\* left <= x < right and top <= y < bottom of a rectangle of the region, the
\* bytes of pixel (x, y) of the source into the bytes of pixel (x, y) of the
\* destination: no other destination byte is written, no other source byte
\* is read.
C18_ManualCopyStaysInRects ==
    (cpc = "done" /\ \E i \in 1..Len(events) : events[i].op = "manualCopy") =>
        LET px == UNION {Points(clipArg.storage[i]) : i \in 1..clipArg.count}
            nonEmpty == {i \in 1..clipArg.count :
                            /\ clipArg.storage[i].right - clipArg.storage[i].left > 0
                            /\ clipArg.storage[i].bottom - clipArg.storage[i].top > 0}
        IN  /\ copied = UNION {{<<(p[1] + dstStride * p[2]) * bpp + c,
                                  (p[1] + srcStride * p[2]) * bpp + c>> :
                                   c \in 0..(bpp - 1)} : p \in px}
            /\ {pr[1] : pr \in copied} =
                  UNION {PixelBytes(p[1], p[2], dstStride, bpp) : p \in px}
            /\ {pr[2] : pr \in copied} =
                  UNION {PixelBytes(p[1], p[2], srcStride, bpp) : p \in px}
            /\ nonEmpty = {} => copied = {}

\* C18 witness: the manual copy ran on a region that holds both a rectangle
\* of no area and one it copied, between buffers of different strides.
C18_Witness ==
    /\ cpc = "done"
    /\ \E i \in 1..Len(events) : events[i].op = "manualCopy"
    /\ copied # {}
    /\ dstStride # srcStride
    /\ \E i \in 1..clipArg.count : isEmpty(clipArg.storage[i])

\* C24: for a rectangle of positive width and height copied between buffers
\* of the same pixel size, the manual copy writes the same bytes as copying
\* the rectangle row by row, and both are the pixel-for-pixel copy of the
\* rectangle; in particular when the rows are contiguous (equal pitches, the
\* rectangle as wide as the pitch) and the copy is one memcpy of
\* width_bytes * height.
C24_CollapsedCopyEqualsRowCopy ==
    (cpc = "done" /\ \E i \in 1..Len(events) : events[i].op = "manualCopy") =>
        LET rects == {clipArg.storage[i] : i \in
                         {k \in 1..clipArg.count :
                             /\ clipArg.storage[k].right > clipArg.storage[k].left
                             /\ clipArg.storage[k].bottom > clipArg.storage[k].top}}
            rowByRow(r) ==
                UNION {memcpyBytes((r.left + dstStride * y) * bpp,
                                   (r.left + srcStride * y) * bpp,
                                   (r.right - r.left) * bpp) :
                          y \in r.top..(r.bottom - 1)}
            pixels(r) ==
                {<<(p[1] + dstStride * p[2]) * bpp + c,
                   (p[1] + srcStride * p[2]) * bpp + c>> :
                    p \in Points(r), c \in 0..(bpp - 1)}
        IN  /\ \A r \in rects :
                  /\ copyRect(r, dstStride, srcStride, bpp) = rowByRow(r)
                  /\ rowByRow(r) = pixels(r)
            /\ copied = UNION {rowByRow(r) : r \in rects}

\* C24 witness: the manual copy has copied a two-row rectangle as wide as
\* the pitch of both buffers, by one memcpy.
C24_Witness ==
    /\ cpc = "done" /\ clipArg.count = 1 /\ bpp > 0
    /\ \E i \in 1..Len(events) : events[i].op = "manualCopy"
    /\ LET r == clipArg.storage[1]
       IN  /\ r.bottom - r.top = 2
           /\ collapsed(dstStride * bpp, srcStride * bpp, (r.right - r.left) * bpp)
           /\ Cardinality(copied) = 2 * dstStride * bpp

\* ------------------------------------------------------------------------
\* Properties of SpecIterator
\* ------------------------------------------------------------------------

\* C25: the next() calls on a region_iterator return 1 with the region's
\* rectangles in storage order, each once, and 0 on every call after the
\* last; the Region is what subtract returned, whatever was iterated; and
\* an iterator constructed later over the same Region answers call by call
\* as the one before it.
C25_IteratorYieldsStorageOrder ==
    /\ reg = subtract(lhs, rhs)
    /\ \A k \in 1..Len(nexts) :
          IF k <= reg.count
          THEN nexts[k] = [ret |-> 1, rect |-> reg.storage[k]]
          ELSE nexts[k].ret = 0
    /\ \A k \in 1..min(Len(nexts), Len(prevNexts)) : nexts[k] = prevNexts[k]
    /\ it # NoIterator =>
          /\ it.e = reg.count
          /\ it.b = min(Len(nexts), reg.count)

\* C25 witness: a second iterator over a Region of four rectangles has
\* returned them all and then 0 twice, as the first one did.
C25_Witness ==
    /\ passes = 2 /\ reg.count = RegionCapacity
    /\ Len(prevNexts) = MaxNexts /\ Len(nexts) = MaxNexts
    /\ nexts[RegionCapacity].ret = 1
    /\ nexts[RegionCapacity + 1].ret = 0 /\ nexts[MaxNexts].ret = 0

\* ------------------------------------------------------------------------
\* Properties of SpecFrames
\* ------------------------------------------------------------------------

C31_GetErrorReturnsLastRecorded ==
    [][\A t \in Threads :
          (calls' = calls + 1 /\ ret'.op = "eglGetError" /\ outArgs'.thread = t)
          => /\ ret'.result = recorded[t]
             /\ eglErrorKey' # -1 => tls'[t][eglErrorKey'] = "EGL_SUCCESS"]_vars

\* C32: on an initialized display eglGetConfigs reports NELEM(gConfigs)
\* configurations when configs is null, writes that many when config_size is
\* large enough, and then returns every index of the table; eglChooseConfig
\* with an empty attribute list counts the same number.
C32_GetConfigsReportsWholeTable ==
    [][(calls' = calls + 1 /\ initialized /\ ret'.result = "EGL_TRUE")
       => /\ (ret'.op \in {"eglGetConfigs", "eglChooseConfig"}
               /\ ~outArgs'.hasConfigs)
             => outArgs'.num = NumConfigs
          /\ (ret'.op = "eglGetConfigs" /\ outArgs'.hasConfigs
               /\ outArgs'.size >= NumConfigs)
             => /\ outArgs'.num = NumConfigs
                /\ {outArgs'.configs[i] : i \in 1..Len(outArgs'.configs)}
                   = 0..(NumConfigs - 1)]_vars

\* C33: eglQueryString and eglGetConfigs, called with the handle eglGetDisplay
\* returns, test the flag eglInitialize sets and eglTerminate clears: while
\* the display is initialized they do not fail with EGL_NOT_INITIALIZED, and
\* while it is not they do.
C33_InitializedFlagIsTheOneTested ==
    [][LET failed == ret'.result \in {"NULL", "EGL_FALSE"}
           error  == recorded'[outArgs'.thread]
       IN  (/\ calls' = calls + 1
            /\ ret'.op \in {"eglQueryString", "eglGetConfigs"}
            /\ ~(failed /\ error = "EGL_BAD_DISPLAY"))
           => /\ initialized => ~(failed /\ error = "EGL_NOT_INITIALIZED")
              /\ ~initialized => (failed /\ error = "EGL_NOT_INITIALIZED")]_vars
====
